---- MODULE Spec2Model ----
(***************************************************************************)
(* Valorant game-data ETL pipeline (src/etl/pipeline.py): Extractor        *)
(* (retrying fetch), Transformer (raw JSON -> flat tables), load_all       *)
(* (table replace + etl_runs metadata), ETLPipeline.run and main().        *)
(*                                                                         *)
(* JSON values are tagged records: Null, Str(<<chars>>), Num(n), Bool(b),  *)
(* Obj(f) with f a function from the keys present to values, List(seq).    *)
(* A key that is absent from a Python dict is absent from DOMAIN f; a key  *)
(* present with value None maps to Null.                                   *)
(***************************************************************************)
EXTENDS Integers, Sequences, FiniteSets, TLC

\* ------------------------------------------------------------ JSON values

Null == [t |-> "null"]

Str(s) == [t |-> "str", v |-> s]

Num(n) == [t |-> "num", v |-> n]

Bool(b) == [t |-> "bool", v |-> b]

Obj(f) == [t |-> "obj", v |-> f]

List(s) == [t |-> "list", v |-> s]

EmptyStr == Str(<<>>)

EmptyDict == <<>>

\* Python truth value of a JSON value (the operand of `not`, `or`, `if`).
Truthy(v) ==
    CASE v.t = "null" -> FALSE
      [] v.t = "bool" -> v.v
      [] v.t = "num"  -> v.v # 0
      [] v.t = "str"  -> Len(v.v) > 0
      [] v.t = "list" -> Len(v.v) > 0
      [] v.t = "obj"  -> DOMAIN v.v # {}

\* d.get(k, default): the stored value when the key is present (None
\* included), the default only when the key is absent.
Get(d, k, default) == IF k \in DOMAIN d THEN d[k] ELSE default

\* a or b
Or(a, b) == IF Truthy(a) THEN a ELSE b

\* s[:n] on a string
Slice(s, n) == Str(SubSeq(s.v, 1, IF Len(s.v) < n THEN Len(s.v) ELSE n))

\* str.replace(pat, ''): every non-overlapping occurrence, left to right
RECURSIVE Remove(_, _)
Remove(s, pat) ==
    IF Len(s) < Len(pat) \/ Len(pat) = 0 THEN s
    ELSE IF SubSeq(s, 1, Len(pat)) = pat
         THEN Remove(SubSeq(s, Len(pat) + 1, Len(s)), pat)
         ELSE <<Head(s)>> \o Remove(Tail(s), pat)

\* ------------------------------------------------------------ Transformer

\* description[:500]
DescLimit == 500

Unknown == <<"U", "n", "k", "n", "o", "w", "n">>

CategoryPrefix ==
    <<"E", "E", "q", "u", "i", "p", "p", "a", "b", "l", "e",
      "C", "a", "t", "e", "g", "o", "r", "y", ":", ":">>

\* A sub-transform either returns a DataFrame (its rows, in order) or raises.
Ok(rows) == [exc |-> "none", rows |-> rows]

Raised(e) == [exc |-> e, rows |-> <<>>]

\* not a.get('isPlayableCharacter', False)  ->  continue
Playable(a) == Truthy(Get(a, "isPlayableCharacter", Bool(FALSE)))

\* a.get('role', {}).get('displayName', 'Unknown') if a.get('role') else 'Unknown'
RoleOf(a) ==
    IF Truthy(Get(a, "role", Null))
    THEN Get(Get(a, "role", Obj(EmptyDict)).v, "displayName", Str(Unknown))
    ELSE Str(Unknown)

\* (x.get('description', '') or '')[:500]
DescriptionOf(x) == Slice(Or(Get(x, "description", EmptyStr), EmptyStr), DescLimit)

AgentRow(a) ==
    [uuid        |-> Get(a, "uuid", EmptyStr),
     name        |-> Get(a, "displayName", EmptyStr),
     role        |-> RoleOf(a),
     description |-> DescriptionOf(a),
     icon_url    |-> Get(a, "displayIcon", EmptyStr)]

RECURSIVE transform_agents(_)
transform_agents(raw) ==
    IF raw = <<>> THEN <<>>
    ELSE (IF Playable(Head(raw)) THEN <<AgentRow(Head(raw))>> ELSE <<>>)
         \o transform_agents(Tail(raw))

AbilityRow(a, ab) ==
    [agent_name   |-> Get(a, "displayName", EmptyStr),
     agent_role   |-> RoleOf(a),
     slot         |-> Get(ab, "slot", EmptyStr),
     ability_name |-> Get(ab, "displayName", EmptyStr),
     description  |-> DescriptionOf(ab)]

\* for ab in a.get('abilities', []): the default applies only to an absent
\* key; iterating None raises TypeError.
AbilitiesOf(a) ==
    LET abs == Get(a, "abilities", List(<<>>))
    IN  IF abs.t = "list"
        THEN Ok([i \in 1..Len(abs.v) |-> AbilityRow(a, abs.v[i].v)])
        ELSE Raised("TypeError")

RECURSIVE transform_abilities(_)
transform_abilities(raw) ==
    IF raw = <<>> THEN Ok(<<>>)
    ELSE IF ~Playable(Head(raw)) THEN transform_abilities(Tail(raw))
    ELSE LET here == AbilitiesOf(Head(raw))
             rest == transform_abilities(Tail(raw))
         IN  IF here.exc # "none" THEN here
             ELSE IF rest.exc # "none" THEN rest
             ELSE Ok(here.rows \o rest.rows)

\* w.get('weaponStats') or {}
StatsOf(w) == Or(Get(w, "weaponStats", Null), Obj(EmptyDict)).v

\* w.get('shopData') or {}
ShopOf(w) == Or(Get(w, "shopData", Null), Obj(EmptyDict)).v

\* (w.get('category', '') or '').replace('EEquippableCategory::', '')
CategoryOf(w) ==
    Str(Remove(Or(Get(w, "category", EmptyStr), EmptyStr).v, CategoryPrefix))

WeaponRow(w) ==
    [uuid                  |-> Get(w, "uuid", EmptyStr),
     name                  |-> Get(w, "displayName", EmptyStr),
     category              |-> CategoryOf(w),
     cost                  |-> Get(ShopOf(w), "cost", Num(0)),
     fire_rate             |-> Get(StatsOf(w), "fireRate", Num(0)),
     magazine_size         |-> Get(StatsOf(w), "magazineSize", Num(0)),
     reload_time           |-> Get(StatsOf(w), "reloadTimeSeconds", Num(0)),
     equip_time            |-> Get(StatsOf(w), "equipTimeSeconds", Num(0)),
     first_bullet_accuracy |-> Get(StatsOf(w), "firstBulletAccuracy", Num(0)),
     wall_penetration      |-> Get(StatsOf(w), "wallPenetration", EmptyStr),
     icon_url              |-> Get(w, "displayIcon", EmptyStr)]

transform_weapons(raw) == [i \in 1..Len(raw) |-> WeaponRow(raw[i])]

\* stats.get('damageRanges', []) or []
DamageRangesOf(w) == Or(Get(StatsOf(w), "damageRanges", List(<<>>)), List(<<>>)).v

\* enumerate() counts from 0
DamageRow(w, i, dr) ==
    [weapon_name |-> Get(w, "displayName", EmptyStr),
     range_index |-> Num(i),
     range_start |-> Get(dr, "rangeStartMeters", Num(0)),
     range_end   |-> Get(dr, "rangeEndMeters", Num(0)),
     head_damage |-> Get(dr, "headDamage", Num(0)),
     body_damage |-> Get(dr, "bodyDamage", Num(0)),
     leg_damage  |-> Get(dr, "legDamage", Num(0))]

RECURSIVE transform_damage_ranges(_)
transform_damage_ranges(raw) ==
    IF raw = <<>> THEN <<>>
    ELSE LET w   == Head(raw)
             drs == DamageRangesOf(w)
         IN  [i \in 1..Len(drs) |-> DamageRow(w, i - 1, drs[i].v)]
             \o transform_damage_ranges(Tail(raw))

\* m.get('callouts') or []
CalloutsOf(m) == Or(Get(m, "callouts", Null), List(<<>>)).v

MapRow(m) ==
    [uuid         |-> Get(m, "uuid", EmptyStr),
     name         |-> Get(m, "displayName", EmptyStr),
     coordinates  |-> Get(m, "coordinates", EmptyStr),
     num_callouts |-> Num(Len(CalloutsOf(m))),
     splash_url   |-> Get(m, "splash", EmptyStr)]

transform_maps(raw) == [i \in 1..Len(raw) |-> MapRow(raw[i])]

ModeRow(mode) ==
    [uuid            |-> Get(mode, "uuid", EmptyStr),
     name            |-> Get(mode, "displayName", EmptyStr),
     duration        |-> Get(mode, "duration", EmptyStr),
     allows_timeouts |-> Get(mode, "allowsMatchTimeouts", Bool(FALSE))]

transform_gamemodes(raw) == [i \in 1..Len(raw) |-> ModeRow(raw[i])]

\* if '<key>' in raw_data: the key's presence decides, not its list's length
Gate(raw_data, key) == key \in DOMAIN raw_data

SubTransform(table, raw) ==
    CASE table = "agents"        -> Ok(transform_agents(raw))
      [] table = "abilities"     -> transform_abilities(raw)
      [] table = "weapons"       -> Ok(transform_weapons(raw))
      [] table = "weapon_damage" -> Ok(transform_damage_ranges(raw))
      [] table = "maps"          -> Ok(transform_maps(raw))
      [] table = "gamemodes"     -> Ok(transform_gamemodes(raw))

TableOrder == <<"agents", "abilities", "weapons", "weapon_damage", "maps", "gamemodes">>

SourceKey(table) ==
    CASE table \in {"agents", "abilities"}      -> "agents"
      [] table \in {"weapons", "weapon_damage"} -> "weapons"
      [] table = "maps"                         -> "maps"
      [] table = "gamemodes"                    -> "gamemodes"

\* len(df) and df.empty of a DataFrame built from a list of row dicts
RowCount(df) == Len(df)

IsEmpty(df) == Len(df) = 0

\* transform_all: the dict of DataFrames (each its sequence of rows), or the
\* exception of the first sub-transform that raises.
transform_all(raw_data) ==
    LET made   == {n \in DOMAIN TableOrder : Gate(raw_data, SourceKey(TableOrder[n]))}
        res(n) == SubTransform(TableOrder[n], raw_data[SourceKey(TableOrder[n])])
        bad    == {n \in made : res(n).exc # "none"}
    IN  IF bad # {}
        THEN [exc |-> res(CHOOSE n \in bad : \A m \in bad : n <= m).exc, tables |-> <<>>]
        ELSE [exc    |-> "none",
              tables |-> [name \in {TableOrder[n] : n \in made} |->
                            res(CHOOSE n \in made : TableOrder[n] = name).rows]]

\* ------------------------------------------------ bounded input universe

\* longest list of records an endpoint returns
MaxRecords == 2

\* longest nested list (abilities, damageRanges, callouts)
MaxNested == 3

Drop(f, k) == [x \in DOMAIN f \ {k} |-> f[x]]

Put(f, k, v) == [x \in DOMAIN f \cup {k} |-> IF x = k THEN v ELSE f[x]]

\* f itself, f with one key absent, f with one key null
Variants(f) ==
    {f} \cup {Drop(f, k) : k \in DOMAIN f} \cup {Put(f, k, Null) : k \in DOMAIN f}

SeqsUpTo(S, n) == UNION {[1..k -> S] : k \in 0..n}

Desc(n) == [i \in 1..n |-> "d"]

Repeat(x, n) == [i \in 1..n |-> x]

FullAbility ==
    [slot        |-> Str(<<"Q">>),
     displayName |-> Str(<<"h", "o", "t">>),
     description |-> Str(Desc(2))]

AbilityLists ==
    {<<>>}
    \cup {<<Obj(ab)>> : ab \in Variants(FullAbility)}
    \cup {<<Obj(Put(FullAbility, "description", Str(Desc(DescLimit + 1))))>>}
    \cup {Repeat(Obj(FullAbility), n) : n \in 2..MaxNested}

FullAgent ==
    [isPlayableCharacter |-> Bool(TRUE),
     uuid                |-> Str(<<"a", "1">>),
     displayName         |-> Str(<<"J", "e", "t", "t">>),
     role                |-> Obj([displayName |-> Str(<<"D", "u", "e", "l">>)]),
     description         |-> Str(Desc(2)),
     displayIcon         |-> Str(<<"i", "1">>),
     abilities           |-> List(<<Obj(FullAbility)>>)]

NullAbilitiesAgent == Put(FullAgent, "abilities", Null)

NonPlayableAgent ==
    Put(Put(FullAgent, "isPlayableCharacter", Bool(FALSE)),
        "abilities", List(Repeat(Obj(FullAbility), MaxNested)))

AgentRecords ==
    Variants(FullAgent)
    \cup {EmptyDict, NonPlayableAgent,
          Put(NonPlayableAgent, "abilities", Null),
          Put(FullAgent, "role", Obj(EmptyDict)),
          Put(FullAgent, "role", Obj([displayName |-> Null])),
          Put(FullAgent, "description", EmptyStr),
          Put(FullAgent, "description", Str(Desc(DescLimit))),
          Put(FullAgent, "description", Str(Desc(DescLimit + 1)))}
    \cup {Put(FullAgent, "abilities", List(l)) : l \in AbilityLists}

FullDamageRange ==
    [rangeStartMeters |-> Num(0),
     rangeEndMeters   |-> Num(30),
     headDamage       |-> Num(160),
     bodyDamage       |-> Num(40),
     legDamage        |-> Num(34)]

DamageRangeLists ==
    {<<>>}
    \cup {<<Obj(dr)>> : dr \in Variants(FullDamageRange)}
    \cup {Repeat(Obj(FullDamageRange), n) : n \in 2..MaxNested}

FullStats ==
    [fireRate            |-> Num(11),
     magazineSize        |-> Num(25),
     reloadTimeSeconds   |-> Num(2),
     equipTimeSeconds    |-> Num(1),
     firstBulletAccuracy |-> Num(1),
     wallPenetration     |-> Str(<<"M", "e", "d">>),
     damageRanges        |-> List(<<Obj(FullDamageRange)>>)]

FullWeapon ==
    [uuid        |-> Str(<<"w", "1">>),
     displayName |-> Str(<<"V", "a", "n", "d", "a", "l">>),
     category    |-> Str(CategoryPrefix \o <<"R", "i", "f", "l", "e">>),
     shopData    |-> Obj([cost |-> Num(2900)]),
     weaponStats |-> Obj(FullStats),
     displayIcon |-> Str(<<"i", "2">>)]

WeaponRecords ==
    Variants(FullWeapon)
    \cup {EmptyDict,
          Put(FullWeapon, "category", Str(<<"R", "i", "f", "l", "e">>)),
          Put(FullWeapon, "category", EmptyStr),
          Put(FullWeapon, "shopData", Obj(EmptyDict)),
          Put(FullWeapon, "shopData", Obj([cost |-> Null]))}
    \cup {Put(FullWeapon, "weaponStats", Obj(st)) : st \in Variants(FullStats)}
    \cup {Put(FullWeapon, "weaponStats", Obj(Put(FullStats, "damageRanges", List(l)))) :
            l \in DamageRangeLists}

FullMap ==
    [uuid        |-> Str(<<"m", "1">>),
     displayName |-> Str(<<"B", "i", "n", "d">>),
     coordinates |-> Str(<<"3", "4", "N">>),
     callouts    |-> List(<<Obj([regionName |-> Str(<<"A">>)])>>),
     splash      |-> Str(<<"s", "1">>)]

MapRecords ==
    Variants(FullMap)
    \cup {EmptyDict}
    \cup {Put(FullMap, "callouts", List(Repeat(Obj([regionName |-> Str(<<"A">>)]), n))) :
            n \in 0..MaxNested}

FullMode ==
    [uuid                |-> Str(<<"g", "1">>),
     displayName         |-> Str(<<"S", "p", "i", "k", "e">>),
     duration            |-> Str(<<"3", "0">>),
     allowsMatchTimeouts |-> Bool(TRUE)]

ModeRecords ==
    Variants(FullMode) \cup {EmptyDict, Put(FullMode, "allowsMatchTimeouts", Bool(FALSE))}

Endpoints == <<"agents", "weapons", "maps", "gamemodes">>

EndpointSet == {Endpoints[i] : i \in DOMAIN Endpoints}

RecordsOf(key) ==
    CASE key = "agents"    -> AgentRecords
      [] key = "weapons"   -> WeaponRecords
      [] key = "maps"      -> MapRecords
      [] key = "gamemodes" -> ModeRecords

FullRecord(key) ==
    CASE key = "agents"    -> FullAgent
      [] key = "weapons"   -> FullWeapon
      [] key = "maps"      -> FullMap
      [] key = "gamemodes" -> FullMode

\* The lists of up to MaxRecords records of an endpoint in which at most one
\* record departs from the full record.
RecordLists(key) ==
    {<<>>}
    \cup {[i \in 1..n |-> IF i = pos THEN r ELSE FullRecord(key)] :
            n \in 1..MaxRecords, pos \in 1..MaxRecords, r \in RecordsOf(key)}

\* Inputs of transform_all: one endpoint's list ranges over RecordLists, each
\* other endpoint is absent, or all of those present hold [] or one full record.
RawInputs ==
    UNION {
      UNION {
        {[k \in keys \cup {focus} |->
            IF k = focus THEN l ELSE IF filled THEN <<FullRecord(k)>> ELSE <<>>] :
          l \in RecordLists(focus)} :
        keys \in SUBSET (EndpointSet \ {focus}), filled \in BOOLEAN} :
      focus \in EndpointSet}

SecondAgent == Put(FullAgent, "uuid", Str(<<"a", "2">>))

\* What the API may answer for an endpoint with status 200 (data.get("data", [])).
ApiResponses(endpoint) ==
    CASE endpoint = "agents" ->
           {<<>>, <<FullAgent>>, <<NullAbilitiesAgent>>, <<FullAgent, SecondAgent>>}
      [] OTHER -> {<<>>, <<FullRecord(endpoint)>>}

\* config['api']['endpoints']: any selection of the four endpoints, in order
EndpointConfigs == {SelectSeq(Endpoints, LAMBDA e : e \in S) : S \in SUBSET EndpointSet}

\* latest hour the clock reaches
MaxClock == 2

\* largest schedule.interval_hours
MaxInterval == 2

\* ------------------------------------------------------------------ state

VARIABLES
    config,       \* pipeline_config.json and argv: exists, endpoints, run_on_start,
                  \* interval_hours, once
    mpc,          \* where main() is
    died,         \* the exception that ended the process, or "none"
    caller,       \* who called pipeline.run(): "startup" (line 377) or "scheduler" (389)
    now,          \* wall clock, in hours
    next_run,     \* the scheduled job's next_run
    inflight,     \* invocations of run() begun and not yet ended
    runs,         \* invocations of run() begun so far
    overran,      \* some run lasted at least interval_hours
    stage,        \* where ETLPipeline.run is
    run_id,       \* this run's id (timestamp)
    run_start,    \* clock at the start of this run
    raw_data,     \* extract_all's dict: endpoint -> records
    transformed,  \* transform_all's result
    run_exc,      \* the exception run() re-raises, or "none"
    eidx,         \* extract_all's position in endpoints
    fpc,          \* fetch_endpoint: idle, fetching, returned
    attempt,      \* fetch_endpoint's loop variable
    tries,        \* HTTP requests this fetch_endpoint call has sent
    gotResponse,  \* this call received a well-formed response
    fresult,      \* what this call returned
    fetching,     \* endpoints with a fetch_endpoint call in progress
    lpc,          \* where load_all is
    ltab,         \* load_all's position in transformed_data.items()
    total_rows,   \* load_all's running total
    load_exc,     \* the exception load_all caught, or "none"
    db,           \* the SQLite file: tables, etl_runs, has_runs
    db0,          \* the SQLite file as it was when this load_all began
    loads         \* load_all calls begun so far

mainVars == <<config, mpc, died, caller, next_run, inflight, runs, overran>>

runVars == <<stage, run_id, run_start, raw_data, transformed, run_exc>>

fetchVars == <<eidx, fpc, attempt, tries, gotResponse, fresult, fetching>>

loadVars == <<lpc, ltab, total_rows, load_exc, db, db0, loads>>

vars == <<mainVars, now, runVars, fetchVars, loadVars>>

NoTables == [exc |-> "none", tables |-> <<>>]

EmptyDb == [tables |-> <<>>, etl_runs |-> {}, has_runs |-> FALSE]

DefaultConfig ==
    [exists |-> TRUE, endpoints |-> Endpoints, run_on_start |-> TRUE,
     interval_hours |-> 0, once |-> FALSE]

MainIdle ==
    /\ mpc = "none" /\ died = "none" /\ caller = "none" /\ next_run = 0 - 1
    /\ inflight = 0 /\ runs = 0 /\ overran = FALSE

RunIdle ==
    /\ run_id = 0 /\ run_start = 0 /\ raw_data = EmptyDict
    /\ transformed = NoTables /\ run_exc = "none"

FetchIdle ==
    /\ eidx = 1 /\ fpc = "idle" /\ attempt = 0 /\ tries = 0
    /\ gotResponse = FALSE /\ fresult = <<>> /\ fetching = {}

LoadIdle ==
    /\ lpc = "idle" /\ ltab = 1 /\ total_rows = 0 /\ load_exc = "none"
    /\ db = EmptyDb /\ db0 = EmptyDb /\ loads = 0

\* -------------------------------------------------------------- Extractor

\* for attempt in range(3)
MaxAttempts == 3

CurrentEndpoint == config.endpoints[eidx]

\* extract_all, line 113: the call fetch_endpoint(endpoint) begins
FetchBegin ==
    /\ stage = "extract" /\ fpc = "idle" /\ eidx <= Len(config.endpoints)
    /\ fpc' = "fetching" /\ attempt' = 0 /\ tries' = 0 /\ gotResponse' = FALSE
    /\ fresult' = <<>>
    /\ fetching' = fetching \cup {CurrentEndpoint}
    /\ UNCHANGED <<eidx, mainVars, now, runVars, loadVars>>

LoopContinues_OffByOne(a) == a < MaxAttempts

\* the for loop goes on to another iteration (range(3) is not exhausted)
LoopContinues(a) == a + 1 < MaxAttempts

\* except requests.RequestException: sleep and go on if attempt < 2, else return []
RetryAfterError(a) == a < 2

FetchReturn(records, responded) ==
    /\ fpc' = "returned" /\ fresult' = records /\ gotResponse' = responded
    /\ UNCHANGED attempt

FetchRetry ==
    /\ attempt' = attempt + 1
    /\ UNCHANGED <<fpc, fresult, gotResponse>>

\* One iteration of fetch_endpoint's loop: a GET and what follows from it.
FetchAttempt ==
    /\ stage = "extract" /\ fpc = "fetching"
    /\ tries' = tries + 1
    /\ \/ \E records \in ApiResponses(CurrentEndpoint) : FetchReturn(records, TRUE)
       \/ FetchReturn(<<>>, TRUE)
       \/ IF LoopContinues(attempt) THEN FetchRetry ELSE FetchReturn(<<>>, FALSE)
       \/ IF RetryAfterError(attempt) /\ LoopContinues(attempt)
          THEN FetchRetry ELSE FetchReturn(<<>>, FALSE)
    /\ UNCHANGED <<eidx, fetching, mainVars, now, runVars, loadVars>>

\* extract_all, lines 113-114: raw_data[endpoint] = <returned list>; sleep(delay)
FetchStore ==
    /\ stage = "extract" /\ fpc = "returned"
    /\ raw_data' = Put(raw_data, CurrentEndpoint, fresult)
    /\ fetching' = fetching \ {CurrentEndpoint}
    /\ eidx' = eidx + 1 /\ fpc' = "idle"
    /\ \E d \in 0..1 : now + d <= MaxClock /\ now' = now + d
    /\ UNCHANGED <<attempt, tries, gotResponse, fresult, mainVars, loadVars,
                   stage, run_id, run_start, transformed, run_exc>>

\* extract_all returns raw_data (line 115); run() goes on to the transform phase
ExtractDone ==
    /\ stage = "extract" /\ fpc = "idle" /\ eidx > Len(config.endpoints)
    /\ stage' = "transform"
    /\ UNCHANGED <<run_id, run_start, raw_data, transformed, run_exc,
                   mainVars, now, fetchVars, loadVars>>

\* run(), line 347: transformed = transform_all(raw_data); an exception goes to
\* run()'s except clause, which logs and re-raises.
TransformAll ==
    /\ stage = "transform"
    /\ transformed' = transform_all(raw_data)
    /\ IF transformed'.exc = "none"
       THEN stage' = "load" /\ UNCHANGED run_exc
       ELSE stage' = "failed" /\ run_exc' = transformed'.exc
    /\ UNCHANGED <<run_id, run_start, raw_data, mainVars, now, fetchVars, loadVars>>

\* ---------------------------------------------------------------- load_all

\* transformed_data.items(): the tables in the order transform_all inserted them
Items(tables) == SelectSeq(TableOrder, LAMBDA name : name \in DOMAIN tables)

\* df['_etl_run_id'] = run_id; df['_etl_loaded_at'] = <now>
StampAll(df, id, at) ==
    [i \in DOMAIN df |->
       [c \in DOMAIN df[i] \cup {"_etl_run_id", "_etl_loaded_at"} |->
          IF c = "_etl_run_id" THEN Num(id)
          ELSE IF c = "_etl_loaded_at" THEN Num(at)
          ELSE df[i][c]]]

StoredRows(tables, name) == IF name \in DOMAIN tables THEN tables[name] ELSE <<>>

to_sql_append(tables, name, df) == Put(tables, name, StoredRows(tables, name) \o df)

\* df.to_sql(table_name, conn, if_exists='replace', index=False)
to_sql(tables, name, df) == Put(tables, name, df)

\* the row of etl_runs; the clock does not move inside load_all
RunRow(id, at, status, ntables, nrows) ==
    [run_id |-> id, started_at |-> at, completed_at |-> at, status |-> status,
     tables_loaded |-> ntables, total_rows |-> nrows, duration_seconds |-> 0]

\* INSERT OR REPLACE INTO etl_runs (run_id is the primary key)
InsertOrReplace(rows, row) == {r \in rows : r.run_id # row.run_id} \cup {row}

\* load_all, lines 256-273: connect, CREATE TABLE IF NOT EXISTS etl_runs; the
\* statement either succeeds or raises into the except clause.
LoadCreateRuns ==
    /\ stage = "load" /\ lpc = "idle"
    /\ loads' = loads + 1 /\ db0' = db /\ ltab' = 1 /\ total_rows' = 0
    /\ \/ /\ db' = [db EXCEPT !.has_runs = TRUE]
          /\ lpc' = "tables" /\ load_exc' = "none"
       \/ /\ lpc' = "handler" /\ load_exc' = "DatabaseError"
          /\ UNCHANGED db
    /\ UNCHANGED <<mainVars, now, runVars, fetchVars>>

\* load_all, lines 275-288: one iteration of the loop over the tables. An empty
\* DataFrame is skipped. A to_sql that raises leaves the stored table as it
\* was or dropped and re-created empty.
LoadTable ==
    /\ stage = "load" /\ lpc = "tables" /\ ltab <= Len(Items(transformed.tables))
    /\ LET name == Items(transformed.tables)[ltab]
           df   == transformed.tables[name]
       IN  IF IsEmpty(df)
           THEN /\ ltab' = ltab + 1
                /\ UNCHANGED <<lpc, total_rows, load_exc, db>>
           ELSE \/ /\ db' = [db EXCEPT !.tables = to_sql(@, name, StampAll(df, run_id, now))]
                   /\ total_rows' = total_rows + RowCount(df)
                   /\ ltab' = ltab + 1
                   /\ UNCHANGED <<lpc, load_exc>>
                \/ /\ lpc' = "handler" /\ load_exc' = "DatabaseError"
                   /\ \/ UNCHANGED db
                      \/ db' = [db EXCEPT !.tables = Put(@, name, <<>>)]
                   /\ UNCHANGED <<ltab, total_rows>>
    /\ UNCHANGED <<db0, loads, mainVars, now, runVars, fetchVars>>

\* load_all, lines 290-307: the loop is over; INSERT OR REPLACE the 'Success'
\* row and commit, or one of the two raises.
LoadRecordRun ==
    /\ stage = "load" /\ lpc = "tables" /\ ltab > Len(Items(transformed.tables))
    /\ \/ /\ db' = [db EXCEPT !.etl_runs =
                      InsertOrReplace(@, RunRow(run_id, now, "Success",
                                                Cardinality(DOMAIN transformed.tables),
                                                total_rows))]
          /\ lpc' = "returned"
          /\ UNCHANGED load_exc
       \/ /\ lpc' = "handler" /\ load_exc' = "DatabaseError"
          /\ UNCHANGED db
    /\ UNCHANGED <<ltab, total_rows, db0, loads, mainVars, now, runVars, fetchVars>>

\* load_all, lines 309-315: the except clause. Its INSERT needs the etl_runs
\* table: without it the INSERT raises and that exception propagates instead.
LoadHandler ==
    /\ stage = "load" /\ lpc = "handler"
    /\ lpc' = "raised"
    /\ IF db.has_runs
       THEN /\ db' = [db EXCEPT !.etl_runs =
                        InsertOrReplace(@, RunRow(run_id, now, "Failed", 0, 0))]
            /\ UNCHANGED load_exc
       ELSE /\ load_exc' = "OperationalError"
            /\ UNCHANGED db
    /\ UNCHANGED <<ltab, total_rows, db0, loads, mainVars, now, runVars, fetchVars>>

\* load_all, lines 316-317, and run(), lines 353-360: conn.close(); load_all
\* returns and run() completes, or the exception reaches run()'s except
\* clause, which logs and re-raises.
LoadEnd ==
    /\ stage = "load" /\ lpc \in {"returned", "raised"}
    /\ lpc' = "idle"
    /\ stage' = IF lpc = "returned" THEN "done" ELSE "failed"
    /\ run_exc' = load_exc
    /\ UNCHANGED <<ltab, total_rows, load_exc, db, db0, loads, run_id, run_start,
                   raw_data, transformed, mainVars, now, fetchVars>>

\* ------------------------------------------------- ETLPipeline and main()

\* Positional parameters, besides self, of the __init__ a class ends up with.
\* Transformer: the def at line 243 sits in Transformer's body (the nested
\* `class Loader:` of line 240 holds only its docstring) and rebinds the
\* __init__ of line 122. Loader: the module-level name is importlib.abc.Loader
\* (line 14), whose constructor takes no argument.
InitParams(cls) ==
    CASE cls = "Extractor"   -> 1
      [] cls = "Transformer" -> 1
      [] cls = "Loader"      -> 0

\* cls(*args): TypeError unless the arguments fit __init__
Construct(cls, nargs) == IF nargs = InitParams(cls) THEN "none" ELSE "TypeError"

\* ETLPipeline.__init__: Extractor(config), Transformer(), Loader(config), in
\* this order; the first exception ends it.
ETLPipeline_init ==
    LET calls == <<Construct("Extractor", 1), Construct("Transformer", 0),
                   Construct("Loader", 1)>>
        bad   == {i \in DOMAIN calls : calls[i] # "none"}
    IN  IF bad = {} THEN "none" ELSE calls[CHOOSE i \in bad : \A j \in bad : i <= j]

\* main(), line 365: load_config() raises FileNotFoundError without a config file
LoadConfig ==
    /\ mpc = "load_config"
    /\ IF config.exists
       THEN mpc' = "setup_logging" /\ UNCHANGED died
       ELSE mpc' = "crashed" /\ died' = "FileNotFoundError"
    /\ UNCHANGED <<config, caller, next_run, inflight, runs, overran,
                   now, runVars, fetchVars, loadVars>>

\* main(), lines 366-370
SetupLogging ==
    /\ mpc = "setup_logging"
    /\ mpc' = "new_pipeline"
    /\ UNCHANGED <<config, died, caller, next_run, inflight, runs, overran,
                   now, runVars, fetchVars, loadVars>>

\* main(), line 372: pipeline = ETLPipeline(config); an exception of the
\* constructor is caught nowhere and ends the process.
NewPipeline ==
    /\ mpc = "new_pipeline"
    /\ IF ETLPipeline_init = "none"
       THEN mpc' = "run_on_start" /\ UNCHANGED died
       ELSE mpc' = "crashed" /\ died' = ETLPipeline_init
    /\ UNCHANGED <<config, caller, next_run, inflight, runs, overran,
                   now, runVars, fetchVars, loadVars>>

\* no job is scheduled
NoJob == 0 - 1

\* run(), lines 332-343: a new run_id from the clock, into the extract phase
RunBegin(who) ==
    /\ mpc' = "in_run" /\ caller' = who
    /\ inflight' = inflight + 1 /\ runs' = runs + 1
    /\ stage' = "extract" /\ run_id' = now /\ run_start' = now
    /\ raw_data' = EmptyDict /\ transformed' = NoTables /\ run_exc' = "none"
    /\ eidx' = 1 /\ fpc' = "idle" /\ attempt' = 0 /\ tries' = 0
    /\ gotResponse' = FALSE /\ fresult' = <<>>
    /\ UNCHANGED <<config, died, next_run, overran, now, fetching, loadVars>>

\* run() is over: its locals, and those of the calls it made, are gone
FrameGone ==
    /\ stage' = "idle" /\ run_id' = 0 /\ run_start' = 0
    /\ raw_data' = EmptyDict /\ transformed' = NoTables /\ run_exc' = "none"
    /\ eidx' = 1 /\ fpc' = "idle" /\ attempt' = 0 /\ tries' = 0
    /\ gotResponse' = FALSE /\ fresult' = <<>> /\ fetching' = {}
    /\ lpc' = "idle" /\ ltab' = 1 /\ total_rows' = 0 /\ load_exc' = "none"

\* main(), lines 376-377: if run_on_start: pipeline.run()
MainRunOnStart ==
    /\ mpc = "run_on_start"
    /\ IF config.run_on_start
       THEN RunBegin("startup")
       ELSE /\ mpc' = "check_schedule"
            /\ UNCHANGED <<config, died, caller, next_run, inflight, runs, overran,
                           now, runVars, fetchVars, loadVars>>

\* main(), lines 380-394: schedule.every(interval).hours.do(pipeline.run) and
\* into the loop, or the single run is complete.
MainCheckSchedule ==
    /\ mpc = "check_schedule"
    /\ IF config.interval_hours > 0 /\ ~config.once
       THEN mpc' = "run_pending" /\ next_run' = now + config.interval_hours
       ELSE mpc' = "exit" /\ UNCHANGED next_run
    /\ UNCHANGED <<config, died, caller, inflight, runs, overran,
                   now, runVars, fetchVars, loadVars>>

SchedulerReady_Threaded == mpc \in {"run_pending", "in_run"}

\* The job is started by schedule.run_pending(), which main's loop calls at
\* line 389 and which calls the job in the calling thread.
SchedulerReady == mpc = "run_pending"

\* main(), line 389: schedule.run_pending() runs the job when it is due
RunPending ==
    /\ SchedulerReady
    /\ IF next_run # NoJob /\ now >= next_run
       THEN RunBegin("scheduler")
       ELSE /\ mpc' = "sleep"
            /\ UNCHANGED <<config, died, caller, next_run, inflight, runs, overran,
                           now, runVars, fetchVars, loadVars>>

\* main(), line 390: time.sleep(60)
Sleep ==
    /\ mpc = "sleep"
    /\ mpc' = "run_pending"
    /\ \E d \in 0..1 : now + d <= MaxClock /\ now' = now + d
    /\ UNCHANGED <<config, died, caller, next_run, inflight, runs, overran,
                   runVars, fetchVars, loadVars>>

\* pipeline.run() ends. It returns to line 377 or into run_pending, which
\* schedules the job's next run from the current time; or it re-raises (line
\* 360): line 377 is in no try block and the loop's try (lines 387-392)
\* catches KeyboardInterrupt only, so the exception ends the process.
RunReturn ==
    /\ mpc = "in_run" /\ stage \in {"done", "failed"}
    /\ inflight' = inflight - 1
    /\ overran' = (overran \/ (config.interval_hours > 0
                                /\ now - run_start >= config.interval_hours))
    /\ IF stage = "failed"
       THEN mpc' = "crashed" /\ died' = run_exc /\ UNCHANGED next_run
       ELSE /\ UNCHANGED died
            /\ IF caller = "startup"
               THEN mpc' = "check_schedule" /\ UNCHANGED next_run
               ELSE mpc' = "sleep" /\ next_run' = now + config.interval_hours
    /\ FrameGone
    /\ UNCHANGED <<config, caller, runs, now, db, db0, loads>>

\* Ctrl+C. Inside the loop's try (lines 387-392, a scheduled run included)
\* KeyboardInterrupt is caught and main returns; before the loop it is caught
\* nowhere. A run in progress is abandoned where it is.
Interrupt ==
    /\ mpc \in {"run_on_start", "check_schedule", "run_pending", "sleep", "in_run"}
    /\ IF mpc \in {"run_pending", "sleep"} \/ (mpc = "in_run" /\ caller = "scheduler")
       THEN mpc' = "stopped" /\ UNCHANGED died
       ELSE mpc' = "crashed" /\ died' = "KeyboardInterrupt"
    /\ inflight' = IF mpc = "in_run" THEN inflight - 1 ELSE inflight
    /\ FrameGone
    /\ UNCHANGED <<config, caller, next_run, runs, overran, now, db, db0, loads>>

\* ------------------------------------------- Transformer on its own inputs

TransformInit ==
    /\ MainIdle /\ config = DefaultConfig /\ now = 0
    /\ stage = "transform" /\ run_id = 0 /\ run_start = 0
    /\ raw_data \in RawInputs
    /\ transformed = NoTables /\ run_exc = "none"
    /\ FetchIdle /\ LoadIdle

TransformNext == TransformAll

TransformSpec == TransformInit /\ [][TransformNext]_vars

\* ------------------------------ Extractor.extract_all, then transform_all

ExtractInit ==
    /\ MainIdle /\ now = 0
    /\ config \in {[DefaultConfig EXCEPT !.endpoints = e] : e \in EndpointConfigs}
    /\ stage = "extract" /\ RunIdle
    /\ FetchIdle /\ LoadIdle

ExtractNext == FetchBegin \/ FetchAttempt \/ FetchStore \/ ExtractDone \/ TransformAll

ExtractSpec == ExtractInit /\ [][ExtractNext]_vars

\* ------------------------------------------------- load_all, call after call

\* most calls of load_all on one database file
MaxLoads == 2

\* The transformed_data load_all is given: what transform_all returns.
LoadInputs ==
    {transform_all(raw).tables :
       raw \in {r \in
                 {[k \in K |-> IF k = "agents" THEN a ELSE <<FullMap>>] :
                    K \in SUBSET {"agents", "maps"},
                    a \in {<<>>, <<FullAgent>>, <<FullAgent, SecondAgent>>}} :
               transform_all(r).exc = "none"}}

LoadInit ==
    /\ MainIdle /\ config = DefaultConfig /\ now = 0
    /\ stage = "load" /\ run_id \in 1..MaxLoads /\ run_start = 0
    /\ raw_data = EmptyDict /\ run_exc = "none"
    /\ transformed \in {[exc |-> "none", tables |-> tb] : tb \in LoadInputs}
    /\ FetchIdle /\ LoadIdle

\* run(), line 351, in a later run: load_all(transformed, run_id) on the same file
LoadAgain ==
    /\ stage \in {"done", "failed"} /\ lpc = "idle" /\ loads < MaxLoads
    /\ stage' = "load" /\ run_exc' = "none"
    /\ run_id' \in 1..MaxLoads
    /\ transformed' \in {[exc |-> "none", tables |-> tb] : tb \in LoadInputs}
    /\ \E d \in 0..1 : now + d <= MaxClock /\ now' = now + d
    /\ UNCHANGED <<run_start, raw_data, mainVars, fetchVars, loadVars>>

LoadNext ==
    LoadCreateRuns \/ LoadTable \/ LoadRecordRun \/ LoadHandler \/ LoadEnd \/ LoadAgain

LoadSpec == LoadInit /\ [][LoadNext]_vars

\* ------------------------------------------------------ the whole program

Configs ==
    [exists : BOOLEAN, endpoints : EndpointConfigs, run_on_start : BOOLEAN,
     interval_hours : 0..MaxInterval, once : BOOLEAN]

Init ==
    /\ config \in Configs
    /\ mpc = "load_config" /\ died = "none" /\ caller = "none" /\ next_run = NoJob
    /\ inflight = 0 /\ runs = 0 /\ overran = FALSE
    /\ now = 0 /\ stage = "idle" /\ RunIdle /\ FetchIdle /\ LoadIdle

Next == LoadConfig \/ SetupLogging \/ NewPipeline

Spec == Init /\ [][Next]_vars

\* --------------- main() from line 375 on, with a pipeline whose parts exist

\* most endpoints a configuration of this specification lists
MaxRunEndpoints == 2

RunConfigs ==
    {c \in Configs :
       /\ c.exists
       /\ \A i \in DOMAIN c.endpoints :
            \E j \in 1..MaxRunEndpoints : j <= Len(Endpoints) /\ c.endpoints[i] = Endpoints[j]}

RunInit ==
    /\ config \in RunConfigs
    /\ mpc = "run_on_start" /\ died = "none" /\ caller = "none" /\ next_run = NoJob
    /\ inflight = 0 /\ runs = 0 /\ overran = FALSE
    /\ now = 0 /\ stage = "idle" /\ RunIdle /\ FetchIdle /\ LoadIdle

RunNext ==
    \/ MainRunOnStart \/ MainCheckSchedule \/ RunPending \/ Sleep \/ RunReturn
    \/ Interrupt
    \/ FetchBegin \/ FetchAttempt \/ FetchStore \/ ExtractDone \/ TransformAll
    \/ LoadCreateRuns \/ LoadTable \/ LoadRecordRun \/ LoadHandler \/ LoadEnd

RunSpec == RunInit /\ [][RunNext]_vars

\* ----------------------------------------------------- claims: Transformer

\* the value at a path of keys, Null when a key on the path is absent or null
RECURSIVE Lookup(_, _)
Lookup(rec, path) ==
    IF Head(path) \notin DOMAIN rec THEN Null
    ELSE IF Len(path) = 1 THEN rec[Head(path)]
    ELSE IF rec[Head(path)].t # "obj" THEN Null
    ELSE Lookup(rec[Head(path)].v, Tail(path))

\* table -> column -> <<path of the source field, documented default>>
Columns(table) ==
    CASE table = "agents" ->
           [uuid        |-> <<(<<"uuid">>), EmptyStr>>,
            name        |-> <<(<<"displayName">>), EmptyStr>>,
            role        |-> <<(<<"role", "displayName">>), Str(Unknown)>>,
            description |-> <<(<<"description">>), EmptyStr>>,
            icon_url    |-> <<(<<"displayIcon">>), EmptyStr>>]
      [] table = "weapons" ->
           [uuid                  |-> <<(<<"uuid">>), EmptyStr>>,
            name                  |-> <<(<<"displayName">>), EmptyStr>>,
            category              |-> <<(<<"category">>), EmptyStr>>,
            cost                  |-> <<(<<"shopData", "cost">>), Num(0)>>,
            fire_rate             |-> <<(<<"weaponStats", "fireRate">>), Num(0)>>,
            magazine_size         |-> <<(<<"weaponStats", "magazineSize">>), Num(0)>>,
            reload_time           |-> <<(<<"weaponStats", "reloadTimeSeconds">>), Num(0)>>,
            equip_time            |-> <<(<<"weaponStats", "equipTimeSeconds">>), Num(0)>>,
            first_bullet_accuracy |-> <<(<<"weaponStats", "firstBulletAccuracy">>), Num(0)>>,
            wall_penetration      |-> <<(<<"weaponStats", "wallPenetration">>), EmptyStr>>,
            icon_url              |-> <<(<<"displayIcon">>), EmptyStr>>]
      [] table = "maps" ->
           [uuid         |-> <<(<<"uuid">>), EmptyStr>>,
            name         |-> <<(<<"displayName">>), EmptyStr>>,
            coordinates  |-> <<(<<"coordinates">>), EmptyStr>>,
            num_callouts |-> <<(<<"callouts">>), Num(0)>>,
            splash_url   |-> <<(<<"splash">>), EmptyStr>>]
      [] table = "gamemodes" ->
           [uuid            |-> <<(<<"uuid">>), EmptyStr>>,
            name            |-> <<(<<"displayName">>), EmptyStr>>,
            duration        |-> <<(<<"duration">>), EmptyStr>>,
            allows_timeouts |-> <<(<<"allowsMatchTimeouts">>), Bool(FALSE)>>]

FlaggedPlayable(a) ==
    "isPlayableCharacter" \in DOMAIN a /\ a["isPlayableCharacter"] = Bool(TRUE)

\* the records a one-row-per-record table is made from
SourceRecords(table) ==
    IF table = "agents"
    THEN SelectSeq(raw_data["agents"], FlaggedPlayable)
    ELSE raw_data[table]

\* length of the list at a path, 0 when it is absent or null
ListLen(rec, path) ==
    LET l == Lookup(rec, path) IN IF l.t = "list" THEN Len(l.v) ELSE 0

RECURSIVE SumLens(_, _)
SumLens(recs, path) ==
    IF recs = <<>> THEN 0
    ELSE ListLen(Head(recs), path) + SumLens(Tail(recs), path)

TransformEnded == stage \in {"load", "failed"}

\* C1: transform_all never raises on records whose fields are missing or null
\* at any depth: it always returns its tables.
C1_TransformNeverRaises == TransformEnded => transformed.exc = "none"

\* C2: in every row of every table, a column whose source field is missing or
\* null holds the documented default, and no column is ever null.
C2_DefaultsNeverNull ==
    TransformEnded /\ transformed.exc = "none" =>
      /\ \A tb \in DOMAIN transformed.tables :
           \A i \in DOMAIN transformed.tables[tb] :
             \A c \in DOMAIN transformed.tables[tb][i] :
               transformed.tables[tb][i][c] # Null
      /\ \A tb \in DOMAIN transformed.tables \cap {"agents", "weapons", "maps", "gamemodes"} :
           /\ Len(transformed.tables[tb]) = Len(SourceRecords(tb))
           /\ \A i \in DOMAIN transformed.tables[tb] :
                \A c \in DOMAIN Columns(tb) :
                  Lookup(SourceRecords(tb)[i], Columns(tb)[c][1]) = Null
                    => transformed.tables[tb][i][c] = Columns(tb)[c][2]

\* C3: the Agent table has one row per record flagged playable, the Ability
\* table as many rows as the playable agents' abilities lists hold together,
\* the WeaponDamageRange table as many as the weapons' damageRanges lists hold.
C3_RowCountLaw ==
    TransformEnded =>
      /\ "agents" \in DOMAIN raw_data =>
           /\ {"agents", "abilities"} \subseteq DOMAIN transformed.tables
           /\ RowCount(transformed.tables["agents"])
                = Len(SelectSeq(raw_data["agents"], FlaggedPlayable))
           /\ RowCount(transformed.tables["abilities"])
                = SumLens(SelectSeq(raw_data["agents"], FlaggedPlayable), <<"abilities">>)
      /\ "weapons" \in DOMAIN raw_data =>
           /\ "weapon_damage" \in DOMAIN transformed.tables
           /\ RowCount(transformed.tables["weapon_damage"])
                = SumLens(raw_data["weapons"], <<"weaponStats", "damageRanges">>)

\* ------------------------------------------- claims: extract, then transform

TableNames == {TableOrder[n] : n \in DOMAIN TableOrder}

Requested == {config.endpoints[i] : i \in DOMAIN config.endpoints}

\* C4: transform_all's output holds a table exactly when the table's endpoint
\* key is in the input mapping, with 0 rows when the key's list is empty; as
\* extract_all sets the key of every requested endpoint, the tables of every
\* requested endpoint are in the output.
C4_EndpointGating ==
    TransformEnded =>
      /\ \A name \in TableNames :
           name \in DOMAIN transformed.tables <=> SourceKey(name) \in DOMAIN raw_data
      /\ \A name \in TableNames :
           (SourceKey(name) \in DOMAIN raw_data /\ raw_data[SourceKey(name)] = <<>>)
             => (name \in DOMAIN transformed.tables
                 /\ RowCount(transformed.tables[name]) = 0)
      /\ \A name \in TableNames :
           SourceKey(name) \in Requested => name \in DOMAIN transformed.tables

\* C5: one fetch_endpoint call sends at most 3 requests whatever fails, goes
\* on only while fewer than 3 were sent, returns [] when every attempt failed,
\* and returns at once when a response arrives.
C5_BoundedRetry ==
    /\ tries <= 3
    /\ fpc = "fetching" => (tries < 3 /\ tries = attempt)
    /\ (fpc = "returned" /\ ~gotResponse) => (fresult = <<>> /\ tries = 3)
    /\ gotResponse => fpc # "fetching"

\* every attempt of a call failed and the call returned []
C5_Witness == fpc = "returned" /\ ~gotResponse /\ tries = 3 /\ fresult = <<>>

\* ----------------------------------------------------------- claims: load

RunRowsOf(id) == {r \in db.etl_runs : r.run_id = id}

\* C6 as claimed: after a load_all that did not raise, every table of its input
\* is stored as exactly the input's rows stamped with this run's id, and no
\* row of an earlier run remains in it.
C6_OverwriteEveryTable ==
    lpc = "returned" =>
      \A name \in DOMAIN transformed.tables :
        StoredRows(db.tables, name) = StampAll(transformed.tables[name], run_id, now)

\* C6 amended: after a load_all that did not raise, every non-empty table of
\* its input is stored as exactly the input's rows stamped with this run's
\* id; an empty table of the input is skipped, so what was stored under its
\* name before the call is still there.
C6_OverwriteNonEmpty ==
    lpc = "returned" =>
      \A name \in DOMAIN transformed.tables :
        IF IsEmpty(transformed.tables[name])
        THEN StoredRows(db.tables, name) = StoredRows(db0.tables, name)
        ELSE StoredRows(db.tables, name) = StampAll(transformed.tables[name], run_id, now)

\* a second load replaced a table that an earlier run had stored
C6_Witness ==
    /\ lpc = "returned" /\ loads = 2
    /\ \E name \in DOMAIN transformed.tables :
         /\ ~IsEmpty(transformed.tables[name])
         /\ StoredRows(db0.tables, name) # <<>>
         /\ StoredRows(db0.tables, name) # StoredRows(db.tables, name)
         /\ StoredRows(db0.tables, name)[1]["_etl_run_id"] # Num(run_id)

\* C7: when load_all raises, a failure row for this run_id is in etl_runs as
\* the exception leaves; when it returns, exactly one row for this run_id is
\* there and it says 'Success'.
C7_RunRowAlwaysWritten ==
    /\ lpc = "raised" => \E r \in RunRowsOf(run_id) : r.status = "Failed"
    /\ lpc = "returned" =>
         /\ Cardinality(RunRowsOf(run_id)) = 1
         /\ \A r \in RunRowsOf(run_id) : r.status = "Success"

\* ------------------------------------------------- claims: run() and main()

SchedulerMode == config.interval_hours > 0 /\ ~config.once

ProcessEnded == mpc \in {"crashed", "exit", "stopped"}

\* C8: in scheduler mode a run that ends with an exception does not end the
\* process: nothing but an interrupt ends it.
C8_FailedRunKeepsTicking ==
    (SchedulerMode /\ ProcessEnded) => died \in {"none", "KeyboardInterrupt"}

\* C9: a run goes Extract (every configured endpoint) -> Transform -> Load, a
\* stage starting only when the one before is over; and the pipeline that
\* main builds with ETLPipeline(config) reaches the extract stage when run()
\* is called (at start-up, with run_on_start set).
C9_StagesInOrder ==
    /\ stage \in {"transform", "load"} => DOMAIN raw_data = Requested
    /\ stage = "load" => transformed = transform_all(raw_data)
    /\ stage = "extract" => (transformed = NoTables /\ lpc = "idle")
    /\ (config.exists /\ config.run_on_start /\ ProcessEnded) => runs > 0

\* C10: at most one run is in flight at any time, also when a run lasts as
\* long as the schedule interval or longer, and within a run at most one
\* endpoint is being fetched.
C10_OneRunInFlight ==
    /\ inflight <= 1
    /\ Cardinality(fetching) <= 1
    /\ inflight = 0 <=> stage = "idle"

\* a scheduled run is fetching after an earlier run lasted a whole interval
C10_Witness ==
    /\ caller = "scheduler" /\ inflight = 1 /\ runs >= 2 /\ overran
    /\ fetching # {}

====
